---- MODULE Spec2Model ----
(***************************************************************************)
(* Model of the feedback bot of src/bot.py: the JSON-backed                *)
(* FeedbackStorage (one file, one asyncio.Lock taken separately by _read   *)
(* and by _write), the update handlers with the feedback conversation,     *)
(* and the EmployeeDirectory read from a CSV file.                         *)
(*                                                                         *)
(* A store call is a coroutine.  Each `await` of the source is a point at  *)
(* which the coroutine may be suspended, so a call is modelled as the      *)
(* sequence of its synchronous blocks: taking the lock, the body run under *)
(* the lock (which also releases it), and the code between two awaits.     *)
(*                                                                         *)
(*   Spec       handlers running concurrently, one store call per task     *)
(*   SpecFresh  one call after another over the freshly created file       *)
(*   SpecSeq    one call after another over any file content, with writes  *)
(*              that can fail                                              *)
(*   SpecChat   the application processing the updates of its users, one   *)
(*              update at a time                                           *)
(*   SpecDir    the directory called by one caller at a time, over a CSV   *)
(*              file that is edited between the calls                      *)
(*   SpecDirTasks  directory calls running concurrently, step by step,     *)
(*              over a CSV file that is replaced meanwhile                 *)
(*   SpecLive   handlers that each call the store or the directory, with   *)
(*              fair scheduling of the coroutines                          *)
(***************************************************************************)
EXTENDS Integers, Sequences, FiniteSets, TLC

(* ------------------------------ bounds --------------------------------- *)
NTasks   == 2      \* store calls that may be in flight at once
MaxCalls == 3      \* store calls made in one behaviour
NumUsers == 2      \* distinct sender identities
MaxUpdates == 3    \* updates the bot receives in one behaviour
MaxRows == 2       \* data rows of the employee CSV file
MaxDirCalls == 3   \* directory calls made in one behaviour

Tasks   == 1..NTasks
UserIds == 1..NumUsers
Times   == {"2024-05-01T10:00:00+00:00"}   \* clock readings, second precision
Texts   == {"hello", "hello2"}

(* --------------------------- Python values ----------------------------- *)
None  == "<None>"
NoExc == [type |-> "ok", msg |-> ""]

Exc(type, msg) == [type |-> type, msg |-> msg]

\* what a call gives that returns None, or that raises
NoValue == << >>

\* Exception classes that `except ValueError` catches: json.JSONDecodeError
\* and UnicodeDecodeError are both subclasses of ValueError.
ValueErrorClasses == {"ValueError", "JSONDecodeError", "UnicodeDecodeError"}

\* dict.get(k, default) on a dict with string keys (a record)
Get(d, k, default) == IF k \in DOMAIN d THEN d[k] ELSE default

\* d[k] = v on a dict with string keys
Put(d, k, v) == [x \in (DOMAIN d) \cup {k} |-> IF x = k THEN v ELSE d[x]]

\* dict.setdefault(k, v): the dict after the call
SetDefault(d, k, v) == IF k \in DOMAIN d THEN d ELSE Put(d, k, v)

\* user_message_counts keeps its insertion order (a Python dict, and the JSON
\* object it is stored as): a sequence of <<key, count>> items.
EmptyCounts == << >>

CountKeys(c) == {c[i][1] : i \in 1..Len(c)}

CountGet(c, k, default) ==
    IF k \in CountKeys(c)
    THEN LET i == CHOOSE j \in 1..Len(c) : c[j][1] = k IN c[i][2]
    ELSE default

CountPut(c, k, v) ==
    IF k \in CountKeys(c)
    THEN [i \in 1..Len(c) |-> IF c[i][1] = k THEN <<k, v>> ELSE c[i]]
    ELSE Append(c, <<k, v>>)

RECURSIVE SumCounts(_)
SumCounts(c) == IF c = << >> THEN 0 ELSE c[1][2] + SumCounts(Tail(c))

\* str(entry.user_id)
str(n) == ToString(n)

(* ------------------------------ entries -------------------------------- *)
\* message.from_user: the profile that comes with a sender id
username(uid)  == IF uid = 1 THEN None ELSE "user" \o ToString(uid)
full_name(uid) == IF uid = 2 THEN None ELSE "Name " \o ToString(uid)

\* FeedbackEntry(user_id, username, full_name, text) with the timestamp
\* default factory reading the clock
FeedbackEntry(uid, text, now) ==
    [user_id |-> uid, username |-> username(uid), full_name |-> full_name(uid),
     text |-> text, timestamp |-> now]

Entries == {FeedbackEntry(u, x, n) : u \in UserIds, x \in Texts, n \in Times}

\* Faulty variant: as_dict that stores the full name under username
as_dict_swapped(e) ==
    [user_id |-> e.user_id, username |-> e.full_name, full_name |-> e.full_name,
     text |-> e.text, timestamp |-> e.timestamp]

as_dict(e) ==
    [user_id |-> e.user_id, username |-> e.username, full_name |-> e.full_name,
     text |-> e.text, timestamp |-> e.timestamp]

(* ------------------------------ the file ------------------------------- *)
EmptyDoc ==
    [feedback |-> << >>,
     stats |-> [total_messages |-> 0, user_message_counts |-> EmptyCounts]]

NoDoc == << >>

\* The content of file_path as read_text/json.loads see it:
\*   json        text that parses to the document `doc`
\*   corrupt     text that json.loads rejects (JSONDecodeError)
\*   undecodable bytes that read_text cannot decode (UnicodeDecodeError)
\*   missing     no file (FileNotFoundError)
JsonFile(doc) == [kind |-> "json", doc |-> doc]
CorruptFile     == [kind |-> "corrupt", doc |-> NoDoc]
UndecodableFile == [kind |-> "undecodable", doc |-> NoDoc]
MissingFile     == [kind |-> "missing", doc |-> NoDoc]

\* FeedbackStorage._ensure_file, run by the constructor
_ensure_file(f) == IF f.kind = "missing" THEN JsonFile(EmptyDoc) ELSE f

\* Documents a file left by an earlier run or edited by hand may hold: a
\* well-formed one, and ones that parse but lack a field.
OldEntry == as_dict(FeedbackEntry(1, "old", "2024-04-30T09:00:00+00:00"))

OldDoc ==
    [feedback |-> <<OldEntry>>,
     stats |-> [total_messages |-> 1, user_message_counts |-> <<(<<str(1), 1>>)>>]]

PartialDocs ==
    { [feedback |-> <<OldEntry>>],
      [stats |-> [total_messages |-> 1, user_message_counts |-> <<(<<str(1), 1>>)>>]],
      [feedback |-> <<OldEntry>>, stats |-> [user_message_counts |-> <<(<<str(1), 1>>)>>]],
      [feedback |-> <<OldEntry>>, stats |-> [total_messages |-> 1]] }

\* An entry carrying a field this version does not know
ForeignDoc ==
    [feedback |-> <<Put(OldEntry, "lang", "ru")>>,
     stats |-> [total_messages |-> 1, user_message_counts |-> <<(<<str(1), 1>>)>>]]

ExistingFiles ==
    {JsonFile(d) : d \in {EmptyDoc, OldDoc, ForeignDoc} \cup PartialDocs}
        \cup {CorruptFile, UndecodableFile}

\* The document has the four fields the store writes
WellFormed(doc) ==
    /\ DOMAIN doc = {"feedback", "stats"}
    /\ DOMAIN doc["stats"] = {"total_messages", "user_message_counts"}

(* ------------------------- FeedbackStorage ----------------------------- *)
\* Faulty variant: _read that lets the JSONDecodeError out and leaves the file
_read_no_heal(f) ==
    CASE f.kind = "json" ->
            [exc |-> NoExc, data |-> f.doc, file |-> f]
      [] f.kind = "corrupt" ->
            [exc |-> Exc("JSONDecodeError", "Expecting value"),
             data |-> NoDoc, file |-> f]
      [] f.kind = "undecodable" ->
            [exc |-> Exc("UnicodeDecodeError", "codec can't decode"),
             data |-> NoDoc, file |-> f]
      [] OTHER ->
            [exc |-> Exc("FileNotFoundError", "No such file"),
             data |-> NoDoc, file |-> f]

\* Faulty variant: _read that resets a document lacking a field as it resets an
\* unparsable one
_read_strict(f) ==
    CASE f.kind = "json" /\ WellFormed(f.doc) ->
            [exc |-> NoExc, data |-> f.doc, file |-> f]
      [] f.kind \in {"json", "corrupt"} ->
            [exc |-> NoExc, data |-> EmptyDoc, file |-> JsonFile(EmptyDoc)]
      [] f.kind = "undecodable" ->
            [exc |-> Exc("UnicodeDecodeError", "codec can't decode"),
             data |-> NoDoc, file |-> f]
      [] OTHER ->
            [exc |-> Exc("FileNotFoundError", "No such file"),
             data |-> NoDoc, file |-> f]

\* _read, the body run under the lock: what it returns or raises, and the
\* file it leaves.  Only json.JSONDecodeError is caught.
_read(f) ==
    CASE f.kind = "json" ->
            [exc |-> NoExc, data |-> f.doc, file |-> f]
      [] f.kind = "corrupt" ->
            [exc |-> NoExc, data |-> EmptyDoc, file |-> JsonFile(EmptyDoc)]
      [] f.kind = "undecodable" ->
            [exc |-> Exc("UnicodeDecodeError", "codec can't decode"),
             data |-> NoDoc, file |-> f]
      [] OTHER ->
            [exc |-> Exc("FileNotFoundError", "No such file"),
             data |-> NoDoc, file |-> f]

\* _write, the body run under the lock.  write_text opens the file for
\* writing, which truncates it, and then writes the text: it can succeed,
\* fail before the file is opened (file untouched) or fail after the
\* truncation (a prefix of the text is left, which json.loads rejects).
WriteFaults == {"open", "partial"}

_write(f, data, fault) ==
    CASE fault = "none"    -> [exc |-> NoExc, file |-> JsonFile(data)]
      [] fault = "open"    -> [exc |-> Exc("OSError", "cannot open"), file |-> f]
      [] OTHER             -> [exc |-> Exc("OSError", "write failed"), file |-> CorruptFile]

\* Faulty variant: add_feedback that forgets to count the message in total_messages
add_feedback_modify_keeps_total(data, entry) ==
    LET d1     == SetDefault(data, "feedback", << >>)
        d2     == [d1 EXCEPT !["feedback"] = Append(@, as_dict(entry))]
        d3     == SetDefault(d2, "stats", << >>)
        s1     == SetDefault(d3["stats"], "total_messages", 0)
        s2     == SetDefault(s1, "user_message_counts", EmptyCounts)
        key    == str(entry.user_id)
        counts == CountPut(s2["user_message_counts"], key,
                           CountGet(s2["user_message_counts"], key, 0) + 1)
    IN  [d3 EXCEPT !["stats"] = [s2 EXCEPT !["user_message_counts"] = counts]]

\* add_feedback between its two awaits: the changes made to the dict that
\* _read returned
add_feedback_modify(data, entry) ==
    LET d1     == SetDefault(data, "feedback", << >>)
        d2     == [d1 EXCEPT !["feedback"] = Append(@, as_dict(entry))]
        d3     == SetDefault(d2, "stats", << >>)
        s1     == Put(d3["stats"], "total_messages",
                      Get(d3["stats"], "total_messages", 0) + 1)
        s2     == SetDefault(s1, "user_message_counts", EmptyCounts)
        key    == str(entry.user_id)
        counts == CountPut(s2["user_message_counts"], key,
                           CountGet(s2["user_message_counts"], key, 0) + 1)
    IN  [d3 EXCEPT !["stats"] = [s2 EXCEPT !["user_message_counts"] = counts]]

\* sorted(items, key=count, reverse=True): stable, equal counts keep their
\* order; here by insertion into the sorted prefix
RECURSIVE InsertDesc(_, _)
InsertDesc(sorted, item) ==
    IF sorted = << >> THEN <<item>>
    ELSE IF sorted[Len(sorted)][2] >= item[2] THEN Append(sorted, item)
    ELSE Append(InsertDesc(SubSeq(sorted, 1, Len(sorted) - 1), item), sorted[Len(sorted)])

RECURSIVE SortedDesc(_)
SortedDesc(items) ==
    IF items = << >> THEN << >>
    ELSE InsertDesc(SortedDesc(SubSeq(items, 1, Len(items) - 1)), items[Len(items)])

\* get_stats after its await
get_stats_result(data) ==
    LET stats == Get(data, "stats", << >>)
    IN  [exc |-> NoExc,
         value |-> <<Get(stats, "total_messages", 0),
                     SortedDesc(Get(stats, "user_message_counts", EmptyCounts))>>]

\* csv.DictWriter with the five fieldnames: a missing key or None is written
\* as the empty string, a key outside fieldnames raises ValueError
CsvFields == <<"timestamp", "user_id", "username", "full_name", "text">>

CsvCell(item, k) ==
    IF k \notin DOMAIN item THEN ""
    ELSE IF k = "user_id" THEN str(item[k])
    ELSE IF item[k] = None THEN ""
    ELSE item[k]

CsvRow(item) == [i \in 1..Len(CsvFields) |-> CsvCell(item, CsvFields[i])]

HasExtraField(item) == \E k \in DOMAIN item : \A i \in 1..Len(CsvFields) : CsvFields[i] # k

NoFeedbackMsg == "No feedback to export."

\* export_csv after its await
export_csv_result(data) ==
    LET feedback == Get(data, "feedback", << >>)
    IN  IF feedback = << >>
        THEN [exc |-> Exc("ValueError", NoFeedbackMsg), value |-> NoValue]
        ELSE IF \E i \in 1..Len(feedback) : HasExtraField(feedback[i])
        THEN [exc |-> Exc("ValueError", "dict contains fields not in fieldnames"),
              value |-> NoValue]
        ELSE [exc |-> NoExc,
              value |-> <<CsvFields>> \o [i \in 1..Len(feedback) |-> CsvRow(feedback[i])]]

\* Faulty variant: clear that empties the entries and leaves the statistics of one
clear_document_keeps_stats ==
    [feedback |-> << >>,
     stats |-> [total_messages |-> 1, user_message_counts |-> <<(<<str(1), 1>>)>>]]

\* clear: the document it hands to _write
clear_document ==
    [feedback |-> << >>,
     stats |-> [total_messages |-> 0, user_message_counts |-> EmptyCounts]]

(* ----------------------------- handlers -------------------------------- *)
AdminChatId == 1          \* load_config: ADMIN_CHAT_ID

\* Faulty variant: is_admin that lets every sender pass
is_admin_anyone(user_id, admin_chat_id) == user_id = user_id

is_admin(user_id, admin_chat_id) == user_id = admin_chat_id

\* the reply texts (Russian in the source), by what they say
DeniedReply   == "admin only"
GenericReply  == "could not prepare the export"
DocumentReply == "feedback_export.csv"

\* export_command after `await storage.export_csv()`: the except clauses in
\* their order, then reply_document
export_reply(r) ==
    IF r.exc.type = "ok" THEN DocumentReply
    ELSE IF r.exc.type \in ValueErrorClasses THEN r.exc.msg
    ELSE GenericReply

(* ------------------------- text, by character -------------------------- *)
\* A message text, a command argument and a CSV cell are sequences of
\* one-character strings; str.strip() removes the blanks at both ends.
RECURSIVE lstrip(_)
lstrip(s) == IF s # << >> /\ s[1] = " " THEN lstrip(Tail(s)) ELSE s

RECURSIVE rstrip(_)
rstrip(s) ==
    IF s # << >> /\ s[Len(s)] = " " THEN rstrip(SubSeq(s, 1, Len(s) - 1)) ELSE s

\* Faulty variant: strip that leaves the text as it is
strip_nothing(s) == s

strip(s) == rstrip(lstrip(s))

\* sep.join(words)
RECURSIVE join(_, _)
join(sep, words) ==
    IF words = << >> THEN << >>
    ELSE IF Len(words) = 1 THEN words[1]
    ELSE words[1] \o sep \o join(sep, Tail(words))

(* ---------------------------- conversation ----------------------------- *)
AWAITING_FEEDBACK_TEXT == 1
END == -1                 \* ConversationHandler.END: no conversation is open

ConvStates == {END, AWAITING_FEEDBACK_TEXT}

\* the reply texts (Russian in the source), by what they say
StartReply   == "hello, this is what I can do"
HelpReply    == "available commands"
PromptReply  == "please send the feedback text in one message"
ThanksReply  == "thank you for the feedback"
SavedReply   == "thank you, your message is saved"
EmptyReply   == "the text must not be empty, try again"
CancelReply  == "operation cancelled"
ClearedReply == "the base is cleared"
ErrorReply   == "an error happened, try again later"

\* Updates: a command with its arguments (context.args, the text after the
\* command split at blanks), a text message, or a message without text
\* (message.text of a command is the slash, its name and the arguments)
Hi == <<"h", "i">>
Ok == <<"o", "k">>

ArgLists == { << >>, <<Hi>>, <<Ok, Hi>> }
RawTexts == { Hi, <<" ">> \o Hi \o <<" ">>, <<" ", " ">> }

Command(c, args) ==
    [kind |-> "command", cmd |-> c, args |-> args,
     text |-> <<"/">> \o join(<<" ">>, <<<<c>>>> \o args)]
TextMessage(t)   == [kind |-> "text", cmd |-> None, args |-> << >>, text |-> t]
PhotoMessage     == [kind |-> "photo", cmd |-> None, args |-> << >>, text |-> << >>]

FeedbackMessages ==
    {Command("feedback", a) : a \in ArgLists} \cup {TextMessage(t) : t \in RawTexts}
        \cup {Command("cancel", << >>), PhotoMessage, Command("unknown", << >>)}

AdminMessages == {Command("export", << >>), Command("clear", << >>)}

OtherMessages ==
    {Command(c, << >>) : c \in {"start", "help", "stats", "employees"}}

Messages == FeedbackMessages \cup AdminMessages \cup OtherMessages

\* CommandHandler(c, ...).check_update
CommandMatches(c, m) == m.kind = "command" /\ m.cmd = c

\* Faulty variant: filters.TEXT alone, which lets commands through
TextNotCommand_any(m) == m.text # << >>

\* filters.TEXT & ~filters.COMMAND
TextNotCommand(m) == m.kind = "text" /\ m.text # << >>

\* Faulty variant: a conversation handler without its fallbacks
conversation_callback_no_fallback(m, state) ==
    IF state = END
    THEN IF CommandMatches("feedback", m) THEN "handle_feedback_command" ELSE None
    ELSE IF state = AWAITING_FEEDBACK_TEXT /\ TextNotCommand(m)
         THEN "handle_feedback_response"
    ELSE None

\* feedback_handler.check_update: the entry point when the sender has no
\* conversation open, otherwise the handlers of the state and then the
\* fallbacks; allow_reentry is left at False
conversation_callback(m, state) ==
    IF state = END
    THEN IF CommandMatches("feedback", m) THEN "handle_feedback_command" ELSE None
    ELSE IF state = AWAITING_FEEDBACK_TEXT /\ TextNotCommand(m)
         THEN "handle_feedback_response"
    ELSE IF CommandMatches("cancel", m) THEN "cancel_feedback"
    ELSE None

\* application.add_handler, in the order of the calls: all in one group, so
\* the first handler that accepts the update is the only one that runs
Handlers ==
    << [command |-> "start",          callback |-> "start_command"],
       [command |-> "help",           callback |-> "help_command"],
       [command |-> None,             callback |-> "feedback_handler"],
       [command |-> "stats",          callback |-> "stats_command"],
       [command |-> "export",         callback |-> "export_command"],
       [command |-> "clear",          callback |-> "clear_command"],
       [command |-> "employees",      callback |-> "employees_command"],
       [command |-> "find_employee",  callback |-> "find_employee_command"],
       [command |-> "department",     callback |-> "department_command"],
       [command |-> "employee_email", callback |-> "employee_email_command"] >>

HandlerCallback(h, m, state) ==
    IF h.callback = "feedback_handler" THEN conversation_callback(m, state)
    ELSE IF CommandMatches(h.command, m) THEN h.callback
    ELSE None

\* Application.process_update: the callback that handles update m of a
\* sender whose conversation is in `state`, or None
RECURSIVE FirstCallback(_, _, _)
FirstCallback(hs, m, state) ==
    IF hs = << >> THEN None
    ELSE IF HandlerCallback(hs[1], m, state) # None
         THEN HandlerCallback(hs[1], m, state)
    ELSE FirstCallback(Tail(hs), m, state)

\* handle_feedback_command: the text given with the command
inline_text(m) == IF m.args # << >> THEN strip(join(<<" ">>, m.args)) ELSE << >>

\* Faulty variant: add_feedback that reads and never writes
add_feedback_call_dry(f, entry) ==
    LET r == _read(f) IN [exc |-> r.exc, file |-> r.file]

\* Faulty variant: a failure to notify the administrator leaves the handler
notify_admin_raises(u, outcome) ==
    IF outcome = "failed"
    THEN [u EXCEPT !.stage = "done", !.notify = outcome, !.replies = <<ErrorReply>>]
    ELSE [u EXCEPT !.stage = "replying", !.notify = outcome]

\* save_feedback_and_notify after the entry is stored: send_message to the
\* administrator; a failure to send is logged and goes no further
notify_admin(u, outcome) == [u EXCEPT !.stage = "replying", !.notify = outcome]

\* storage.add_feedback(entry) when nothing runs beside it
add_feedback_call(f, entry) ==
    LET r == _read(f) IN
    IF r.exc # NoExc THEN [exc |-> r.exc, file |-> r.file]
    ELSE _write(r.file, add_feedback_modify(r.data, entry), "none")

(* ------------------------- employee directory -------------------------- *)
\* str.lower(), on the letters the model's texts are written with
lower_char(c) ==
    CASE c = "A" -> "a" [] c = "I" -> "i" [] c = "O" -> "o"
      [] c = "Q" -> "q" [] c = "T" -> "t" [] OTHER -> c

lower(s) == [i \in 1..Len(s) |-> lower_char(s[i])]

\* `needle in hay` for two texts
contains(needle, hay) ==
    \E i \in 1..(Len(hay) + 1 - Len(needle)) :
        SubSeq(hay, i, i + Len(needle) - 1) = needle

\* seq[:limit]
Take(seq, limit) == SubSeq(seq, 1, IF Len(seq) < limit THEN Len(seq) ELSE limit)

Employee(name, department, role, email) ==
    [name |-> name, department |-> department, role |-> role, email |-> email]

\* The CSV file: missing, or a header line and rows.  A row is the dict that
\* csv.DictReader makes of a line; a line with fewer cells than the header
\* leaves the last keys without a text.
RequiredColumns == {"name", "department", "role", "email"}

FullHeader    == <<"name", "department", "role", "email">>
NoEmailHeader == <<"name", "department", "role">>

MissingSource == [kind |-> "missing", fieldnames |-> << >>, rows |-> << >>]

CsvSource(fieldnames, rows) == [kind |-> "csv", fieldnames |-> fieldnames, rows |-> rows]

IvanRow  == [name |-> <<"I", "v">>, department |-> <<"I", "T">>,
             role |-> <<"Q", "A">>, email |-> <<"i", "@">>]
AnnaRow  == [name |-> <<" ", "A", "n", " ">>, department |-> << >>,
             role |-> <<"I", "T">>, email |-> <<"a", "@", " ">>]
BlankRow == [name |-> <<" ">>, department |-> <<"I", "T">>,
             role |-> <<"Q", "A">>, email |-> <<"b", "@">>]
ShortRow == [name |-> <<"O", "l">>, department |-> <<"I", "T">>]

Rows == {IvanRow, AnnaRow, BlankRow, ShortRow}

RowSeqs == UNION {[1..n -> Rows] : n \in 0..MaxRows}

Sources ==
    {MissingSource, CsvSource(<< >>, << >>), CsvSource(NoEmailHeader, <<ShortRow>>)}
        \cup {CsvSource(FullHeader, rows) : rows \in RowSeqs}

\* the file that concurrent calls are run over, in its successive versions
SourceVersions ==
    << CsvSource(FullHeader, <<IvanRow>>),
       CsvSource(NoEmailHeader, <<ShortRow>>),
       CsvSource(FullHeader, <<BlankRow, AnnaRow>>),
       MissingSource >>

TaskSources == {SourceVersions[i] : i \in 1..Len(SourceVersions)}

\* (row.get(k) or "").strip()
cell(row, k) == IF k \in DOMAIN row THEN strip(row[k]) ELSE << >>

SchemaError == Exc("ValueError", "Employee CSV missing required columns")

\* Faulty variant: _read_csv that keeps the rows without a name or an email
RECURSIVE read_rows_keeps_all(_)
read_rows_keeps_all(rows) ==
    IF rows = << >> THEN << >>
    ELSE <<Employee(cell(rows[1], "name"), cell(rows[1], "department"),
                    cell(rows[1], "role"), cell(rows[1], "email"))>>
             \o read_rows_keeps_all(Tail(rows))

\* _read_csv: the loop over the rows
RECURSIVE read_rows(_)
read_rows(rows) ==
    IF rows = << >> THEN << >>
    ELSE LET name  == cell(rows[1], "name")
             email == cell(rows[1], "email")
         IN  IF name = << >> \/ email = << >>
             THEN read_rows(Tail(rows))
             ELSE <<Employee(name, cell(rows[1], "department"),
                             cell(rows[1], "role"), email)>>
                      \o read_rows(Tail(rows))

\* _read_csv: what it raises, or the employees it returns
_read_csv(src) ==
    IF src.kind = "missing"
    THEN [exc |-> Exc("FileNotFoundError", "employees.csv"), employees |-> << >>]
    ELSE IF RequiredColumns \ {src.fieldnames[i] : i \in 1..Len(src.fieldnames)} # {}
    THEN [exc |-> SchemaError, employees |-> << >>]
    ELSE [exc |-> NoExc, employees |-> read_rows(src.rows)]

\* Faulty variant: reload that empties the directory whenever reading fails
reload_clears_on_error(employees, src) ==
    LET r == _read_csv(src) IN
    IF r.exc.type = "FileNotFoundError" THEN [exc |-> NoExc, employees |-> << >>]
    ELSE IF r.exc # NoExc THEN [exc |-> r.exc, employees |-> << >>]
    ELSE [exc |-> NoExc, employees |-> r.employees]

\* reload: what it raises, and self._employees when it is left
reload(employees, src) ==
    LET r == _read_csv(src) IN
    IF r.exc.type = "FileNotFoundError" THEN [exc |-> NoExc, employees |-> << >>]
    ELSE IF r.exc # NoExc THEN [exc |-> r.exc, employees |-> employees]
    ELSE [exc |-> NoExc, employees |-> r.employees]

ensure_loaded(employees, src) == reload(employees, src)

\* reload once `await asyncio.to_thread(self._read_csv)` has given r: the
\* except clauses and the assignment
reload_install(employees, r) ==
    IF r.exc.type = "FileNotFoundError" THEN [exc |-> NoExc, employees |-> << >>]
    ELSE IF r.exc # NoExc THEN [exc |-> r.exc, employees |-> employees]
    ELSE [exc |-> NoExc, employees |-> r.employees]

\* Faulty variant: a lock that is given to whoever asks
can_acquire_always(l) == l = l

\* `async with self._lock` is entered when nobody holds the lock
can_acquire(l) == l = 0

\* Faulty variant: a lock that stays held when the section is left by an exception
lock_after_leaks(t, exc) == IF exc = NoExc THEN 0 ELSE t

\* `async with self._lock` is left, by the end of the block, a return or
\* an exception: the lock is free
lock_after(t, exc) == 0

UnspecifiedDepartment == <<"n", "/", "a">>

SearchLimit     == 10
DepartmentLimit == 20

\* summarize: the total and the number of employees per department (the
\* order of the keys is not modelled)
summarize_result(employees) ==
    LET key(e) == IF e.department = << >> THEN UnspecifiedDepartment ELSE e.department
        keys   == {key(employees[i]) : i \in 1..Len(employees)}
    IN  <<Len(employees),
          [k \in keys |-> Cardinality({i \in 1..Len(employees) : key(employees[i]) = k})]>>

search_result(employees, query, limit) ==
    LET Match(e) == contains(lower(query), lower(e.name))
                       \/ contains(lower(query), lower(e.role))
    IN  Take(SelectSeq(employees, Match), limit)

by_department_result(employees, department, limit) ==
    LET Match(e) == contains(lower(department), lower(e.department))
    IN  Take(SelectSeq(employees, Match), limit)

find_email_result(employees, name_query) ==
    LET Match(e) == contains(lower(name_query), lower(e.name))
    IN  SelectSeq(employees, Match)

Queries == { <<"i", "T">>, <<"a">> }

\* the query that concurrent calls are made with
TaskQueries == { <<"a">> }

DirOps == {"summarize", "search", "by_department", "find_email"}

\* a query on the employees in memory
query_result(o, employees, q) ==
    CASE o = "summarize"     -> summarize_result(employees)
      [] o = "search"        -> search_result(employees, q, SearchLimit)
      [] o = "by_department" -> by_department_result(employees, q, DepartmentLimit)
      [] OTHER               -> find_email_result(employees, q)

(* ------------------------------- state --------------------------------- *)
VARIABLES
    file,     \* content of storage.file_path
    lock,     \* storage._lock: the task holding it, or 0
    pc,       \* per task: where its coroutine stands
    op,       \* per task: the operation it runs
    arg,      \* per task: the FeedbackEntry (add_feedback) or the sender (commands)
    data,     \* per task: the dict `data` of the running call
    ret,      \* per task: what the store call returned or raised
    reply,    \* per task: the reply a command handler sent
    before,   \* per task: the file when the call started
    last,     \* the call that returned most recently, with the file it left
    calls,    \* number of calls started
    conv,     \* per user: the state of the feedback conversation
    upd,      \* the update being processed, or the one processed last
    sent,     \* number of updates received
    source,   \* content of directory.file_path
    _employees,  \* directory._employees
    dcall,    \* the directory call made last, with what it found and returned
    dcalls,   \* number of directory calls and source changes
    dlock,    \* directory._lock: the task holding it, or 0
    dpc,      \* per task: where its directory coroutine stands
    dop,      \* per task: the directory method it runs, with its query
    dread,    \* per task: what _read_csv gave to the running reload
    dret,     \* per task: what the directory call returned or raised
    installed \* the sequences that reloads have assigned to _employees

chatVars == <<conv, upd, sent>>
dirTasks == <<dlock, dpc, dop, dread, dret, installed>>
dirVars  == <<source, _employees, dcall, dcalls, dirTasks>>

vars == <<file, lock, pc, op, arg, data, ret, reply, before, last, calls,
          chatVars, dirVars>>

NoArg   == [user_id |-> 0]
NoRet   == [exc |-> NoExc, value |-> NoValue]
NoReply == "<no reply>"
NoCall  == [op |-> "none", arg |-> NoArg, ret |-> NoRet, reply |-> NoReply,
            before |-> MissingFile, after |-> MissingFile]

NoUpdate ==
    [stage |-> "none", user |-> 0, msg |-> PhotoMessage, callback |-> None,
     entry |-> NoArg, file0 |-> MissingFile, conv0 |-> << >>,
     replies |-> << >>, notify |-> "none"]

\* no store call is made by a task of its own, and the directory is left alone
StoreIdle == UNCHANGED <<lock, pc, op, arg, data, ret, reply, before, last, calls>>

NoChat ==
    /\ conv = [u \in UserIds |-> END]
    /\ upd = NoUpdate
    /\ sent = 0

NoDirCall ==
    [op |-> "none", query |-> << >>, exc |-> NoExc, value |-> NoValue,
     employees0 |-> << >>]

NoDirOp == [op |-> "none", query |-> << >>]
NoRead  == [exc |-> NoExc, employees |-> << >>]

\* no directory coroutine is running
IdleDirTasks ==
    /\ dlock = 0
    /\ dpc = [t \in Tasks |-> "idle"]
    /\ dop = [t \in Tasks |-> NoDirOp]
    /\ dread = [t \in Tasks |-> NoRead]
    /\ dret = [t \in Tasks |-> NoRet]
    /\ installed = { << >> }

\* EmployeeDirectory(path): nothing is read yet
NoDirectory ==
    /\ source = MissingSource
    /\ _employees = << >>
    /\ dcall = NoDirCall
    /\ dcalls = 0
    /\ IdleDirTasks

IdleTasks ==
    /\ lock = 0
    /\ pc = [t \in Tasks |-> "idle"]
    /\ op = [t \in Tasks |-> "none"]
    /\ arg = [t \in Tasks |-> NoArg]
    /\ data = [t \in Tasks |-> NoDoc]
    /\ ret = [t \in Tasks |-> NoRet]
    /\ reply = [t \in Tasks |-> NoReply]
    /\ before = [t \in Tasks |-> MissingFile]
    /\ last = NoCall
    /\ calls = 0

\* FeedbackStorage(Path("feedback.json")) where no file existed
InitFresh ==
    /\ file = _ensure_file(MissingFile)
    /\ IdleTasks
    /\ NoChat
    /\ NoDirectory

\* ... or where the file of an earlier run, with one entry, was found
Init ==
    /\ file \in {_ensure_file(MissingFile), _ensure_file(JsonFile(OldDoc))}
    /\ IdleTasks
    /\ NoChat
    /\ NoDirectory

\* The directory over any CSV file; nothing is read until the first call
InitDir ==
    /\ file = _ensure_file(MissingFile)
    /\ IdleTasks
    /\ NoChat
    /\ source \in Sources
    /\ _employees = << >>
    /\ dcall = NoDirCall
    /\ dcalls = 0
    /\ IdleDirTasks

\* A store whose path held a file already when it was constructed, or whose
\* file was removed afterwards: _ensure_file runs in the constructor only.
InitAnyFile ==
    /\ file \in {_ensure_file(MissingFile), MissingFile}
                  \cup {_ensure_file(f) : f \in ExistingFiles}
    /\ IdleTasks
    /\ NoChat
    /\ NoDirectory

(* ------------------------------ actions -------------------------------- *)
\* A handler calls a store operation: the coroutine is created and runs up
\* to its first await on the lock.
Start(t, o, a, first, rep) ==
    /\ pc[t] = "idle"
    /\ calls < MaxCalls
    /\ calls' = calls + 1
    /\ op' = [op EXCEPT ![t] = o]
    /\ arg' = [arg EXCEPT ![t] = a]
    /\ pc' = [pc EXCEPT ![t] = first]
    /\ before' = [before EXCEPT ![t] = file]
    /\ ret' = [ret EXCEPT ![t] = NoRet]
    /\ reply' = [reply EXCEPT ![t] = rep]

CallAddFeedback(t) ==
    /\ \E e \in Entries : Start(t, "add_feedback", e, "read_wait", NoReply)
    /\ data' = [data EXCEPT ![t] = NoDoc]
    /\ UNCHANGED <<file, lock, last>>
    /\ UNCHANGED <<chatVars, dirVars>>

CallGetStats(t) ==
    /\ Start(t, "get_stats", NoArg, "read_wait", NoReply)
    /\ data' = [data EXCEPT ![t] = NoDoc]
    /\ UNCHANGED <<file, lock, last>>
    /\ UNCHANGED <<chatVars, dirVars>>

CallExportCsv(t) ==
    /\ Start(t, "export_csv", NoArg, "read_wait", NoReply)
    /\ data' = [data EXCEPT ![t] = NoDoc]
    /\ UNCHANGED <<file, lock, last>>
    /\ UNCHANGED <<chatVars, dirVars>>

\* clear: the empty document is built and handed to _write
CallClear(t) ==
    /\ Start(t, "clear", NoArg, "write_wait", NoReply)
    /\ data' = [data EXCEPT ![t] = clear_document]
    /\ UNCHANGED <<file, lock, last>>
    /\ UNCHANGED <<chatVars, dirVars>>

\* export_command by an administrator: goes on to storage.export_csv()
CallExportCommand(t) ==
    /\ \E u \in UserIds :
          /\ is_admin(u, AdminChatId)
          /\ Start(t, "export_command", [user_id |-> u], "read_wait", NoReply)
    /\ data' = [data EXCEPT ![t] = NoDoc]
    /\ UNCHANGED <<file, lock, last>>
    /\ UNCHANGED <<chatVars, dirVars>>

\* export_command by anyone else: the denial and nothing more
ExportCommandDenied(t) ==
    /\ \E u \in UserIds :
          /\ ~is_admin(u, AdminChatId)
          /\ Start(t, "export_command", [user_id |-> u], "done", DeniedReply)
    /\ data' = [data EXCEPT ![t] = NoDoc]
    /\ UNCHANGED <<file, lock, last>>
    /\ UNCHANGED <<chatVars, dirVars>>

\* The call ends: its result, and for a command the reply it sends
Finish(t, r) ==
    /\ pc' = [pc EXCEPT ![t] = "done"]
    /\ ret' = [ret EXCEPT ![t] = r]
    /\ reply' = [reply EXCEPT ![t] =
                    IF op[t] = "export_command" THEN export_reply(r) ELSE NoReply]

\* _read: `async with self._lock` is entered
ReadAcquire(t) ==
    /\ pc[t] = "read_wait"
    /\ lock = 0
    /\ lock' = t
    /\ pc' = [pc EXCEPT ![t] = "read_crit"]
    /\ UNCHANGED <<file, op, arg, data, ret, reply, before, last, calls>>
    /\ UNCHANGED <<chatVars, dirVars>>

\* _read: the body under the lock, and the lock released on the way out,
\* by return or by an exception that is not caught
ReadBody(t) ==
    /\ pc[t] = "read_crit"
    /\ lock = t
    /\ lock' = 0
    /\ LET r == _read(file) IN
          /\ file' = r.file
          /\ data' = [data EXCEPT ![t] = r.data]
          /\ IF r.exc = NoExc
             THEN /\ pc' = [pc EXCEPT ![t] = "after_read"]
                  /\ UNCHANGED <<ret, reply>>
             ELSE Finish(t, [exc |-> r.exc, value |-> NoValue])
    /\ UNCHANGED <<op, arg, before, last, calls>>
    /\ UNCHANGED <<chatVars, dirVars>>

\* add_feedback between `await self._read()` and `await self._write(data)`
AddFeedbackModify(t) ==
    /\ pc[t] = "after_read"
    /\ op[t] = "add_feedback"
    /\ data' = [data EXCEPT ![t] = add_feedback_modify(data[t], arg[t])]
    /\ pc' = [pc EXCEPT ![t] = "write_wait"]
    /\ UNCHANGED <<file, lock, op, arg, ret, reply, before, last, calls>>
    /\ UNCHANGED <<chatVars, dirVars>>

GetStatsReturn(t) ==
    /\ pc[t] = "after_read"
    /\ op[t] = "get_stats"
    /\ Finish(t, get_stats_result(data[t]))
    /\ UNCHANGED <<file, lock, op, arg, data, before, last, calls>>
    /\ UNCHANGED <<chatVars, dirVars>>

\* export_csv, called directly or by export_command
ExportCsvReturn(t) ==
    /\ pc[t] = "after_read"
    /\ op[t] \in {"export_csv", "export_command"}
    /\ Finish(t, export_csv_result(data[t]))
    /\ UNCHANGED <<file, lock, op, arg, data, before, last, calls>>
    /\ UNCHANGED <<chatVars, dirVars>>

\* _write: `async with self._lock` is entered
WriteAcquire(t) ==
    /\ pc[t] = "write_wait"
    /\ lock = 0
    /\ lock' = t
    /\ pc' = [pc EXCEPT ![t] = "write_crit"]
    /\ UNCHANGED <<file, op, arg, data, ret, reply, before, last, calls>>
    /\ UNCHANGED <<chatVars, dirVars>>

\* _write: write_text succeeds, the lock is released
WriteBody(t) ==
    /\ pc[t] = "write_crit"
    /\ lock = t
    /\ lock' = 0
    /\ LET w == _write(file, data[t], "none") IN
          /\ file' = w.file
          /\ Finish(t, [exc |-> w.exc, value |-> NoValue])
    /\ UNCHANGED <<op, arg, data, before, last, calls>>
    /\ UNCHANGED <<chatVars, dirVars>>

\* _write: write_text raises, the lock is released by the exception
WriteBodyFails(t) ==
    /\ pc[t] = "write_crit"
    /\ lock = t
    /\ lock' = 0
    /\ \E fault \in WriteFaults :
          LET w == _write(file, data[t], fault) IN
             /\ file' = w.file
             /\ Finish(t, [exc |-> w.exc, value |-> NoValue])
    /\ UNCHANGED <<op, arg, data, before, last, calls>>
    /\ UNCHANGED <<chatVars, dirVars>>

\* The caller has the result; the task is free for another call
Return(t) ==
    /\ pc[t] = "done"
    /\ last' = [op |-> op[t], arg |-> arg[t], ret |-> ret[t], reply |-> reply[t],
                before |-> before[t], after |-> file]
    /\ pc' = [pc EXCEPT ![t] = "idle"]
    /\ op' = [op EXCEPT ![t] = "none"]
    /\ arg' = [arg EXCEPT ![t] = NoArg]
    /\ data' = [data EXCEPT ![t] = NoDoc]
    /\ ret' = [ret EXCEPT ![t] = NoRet]
    /\ reply' = [reply EXCEPT ![t] = NoReply]
    /\ before' = [before EXCEPT ![t] = MissingFile]
    /\ UNCHANGED <<file, lock, calls>>
    /\ UNCHANGED <<chatVars, dirVars>>

Step(t) ==
    \/ CallAddFeedback(t)
    \/ CallGetStats(t)
    \/ CallExportCsv(t)
    \/ CallClear(t)
    \/ CallExportCommand(t)
    \/ ExportCommandDenied(t)
    \/ ReadAcquire(t)
    \/ ReadBody(t)
    \/ AddFeedbackModify(t)
    \/ GetStatsReturn(t)
    \/ ExportCsvReturn(t)
    \/ WriteAcquire(t)
    \/ WriteBody(t)

\* Handlers running concurrently, one store call each, with a file system
\* that does not fail
Next == \E t \in Tasks : Step(t)

Spec == Init /\ [][Next]_vars

\* One call after another over the freshly created file, with a file system
\* that does not fail
NextFresh == Step(1) \/ Return(1)

SpecFresh == InitFresh /\ [][NextFresh]_vars

\* One call after another over any file, with writes that can fail
NextSeq == Step(1) \/ Return(1) \/ WriteBodyFails(1)

SpecSeq == InitAnyFile /\ [][NextSeq]_vars

(* ------------------------ the update handlers -------------------------- *)
\* Faulty variant: one conversation state shared by all senders
Route_shared(m, state) ==
    FirstCallback(Handlers, m,
                  IF \E u \in UserIds : conv[u] = AWAITING_FEEDBACK_TEXT
                  THEN AWAITING_FEEDBACK_TEXT ELSE END)

Route(m, state) == FirstCallback(Handlers, m, state)

\* Application.process_update: updates are processed one at a time
\* (concurrent_updates is left off); update m of user u goes to callback cb
Dispatch(u, m, cb) ==
    /\ upd.stage \in {"none", "done"}
    /\ sent < MaxUpdates
    /\ Route(m, conv[u]) = cb
    /\ sent' = sent + 1
    /\ StoreIdle
    /\ UNCHANGED dirVars

\* what the handling of the update has done so far
Handling(u, m, cb, stage, entry, replies) ==
    upd' = [stage |-> stage, user |-> u, msg |-> m, callback |-> cb,
            entry |-> entry, file0 |-> file, conv0 |-> conv,
            replies |-> replies, notify |-> "none"]

\* No handler accepts the update: nothing runs
Unhandled(u) ==
    /\ \E m \in Messages :
          /\ Dispatch(u, m, None)
          /\ Handling(u, m, None, "done", NoArg, << >>)
    /\ UNCHANGED <<file, conv>>

start_command(u) ==
    /\ \E m \in Messages :
          /\ Dispatch(u, m, "start_command")
          /\ Handling(u, m, "start_command", "done", NoArg, <<StartReply>>)
    /\ UNCHANGED <<file, conv>>

help_command(u) ==
    /\ \E m \in Messages :
          /\ Dispatch(u, m, "help_command")
          /\ Handling(u, m, "help_command", "done", NoArg, <<HelpReply>>)
    /\ UNCHANGED <<file, conv>>

\* /feedback: with a text it is saved at once, without one the text is asked for
handle_feedback_command(u) ==
    \E m \in Messages, now \in Times :
        /\ Dispatch(u, m, "handle_feedback_command")
        /\ IF inline_text(m) # << >>
           THEN /\ Handling(u, m, "handle_feedback_command", "saving",
                            FeedbackEntry(u, inline_text(m), now), << >>)
                /\ UNCHANGED <<file, conv>>
           ELSE /\ Handling(u, m, "handle_feedback_command", "done", NoArg,
                            <<PromptReply>>)
                /\ conv' = [conv EXCEPT ![u] = AWAITING_FEEDBACK_TEXT]
                /\ UNCHANGED file

\* the text that was asked for
handle_feedback_response(u) ==
    \E m \in Messages, now \in Times :
        /\ Dispatch(u, m, "handle_feedback_response")
        /\ IF strip(m.text) = << >>
           THEN /\ Handling(u, m, "handle_feedback_response", "done", NoArg,
                            <<EmptyReply>>)
                /\ conv' = [conv EXCEPT ![u] = AWAITING_FEEDBACK_TEXT]
                /\ UNCHANGED file
           ELSE /\ Handling(u, m, "handle_feedback_response", "saving",
                            FeedbackEntry(u, strip(m.text), now), << >>)
                /\ UNCHANGED <<file, conv>>

\* save_feedback_and_notify: `await storage.add_feedback(entry)`; what it
\* raises leaves the handler, and error_handler answers
SaveFeedback ==
    /\ upd.stage = "saving"
    /\ LET r == add_feedback_call(file, upd.entry) IN
          /\ file' = r.file
          /\ upd' = IF r.exc = NoExc
                    THEN [upd EXCEPT !.stage = "notifying"]
                    ELSE [upd EXCEPT !.stage = "done", !.replies = <<ErrorReply>>]
    /\ UNCHANGED <<conv, sent>>
    /\ StoreIdle
    /\ UNCHANGED dirVars

\* save_feedback_and_notify: the message to the administrator
NotifyAdmin ==
    /\ upd.stage = "notifying"
    /\ \E outcome \in {"sent", "failed"} : upd' = notify_admin(upd, outcome)
    /\ UNCHANGED <<file, conv, sent>>
    /\ StoreIdle
    /\ UNCHANGED dirVars

\* back in the handler: the thanks, and the conversation ends
ThankUser ==
    /\ upd.stage = "replying"
    /\ upd' = [upd EXCEPT !.stage = "done",
                          !.replies = Append(@,
                              IF upd.callback = "handle_feedback_command"
                              THEN ThanksReply ELSE SavedReply)]
    /\ conv' = [conv EXCEPT ![upd.user] = END]
    /\ UNCHANGED <<file, sent>>
    /\ StoreIdle
    /\ UNCHANGED dirVars

cancel_feedback(u) ==
    /\ \E m \in Messages :
          /\ Dispatch(u, m, "cancel_feedback")
          /\ Handling(u, m, "cancel_feedback", "done", NoArg, <<CancelReply>>)
    /\ conv' = [conv EXCEPT ![u] = END]
    /\ UNCHANGED file

\* the statistics are read and sent
stats_command(u) ==
    /\ \E m \in Messages :
          /\ Dispatch(u, m, "stats_command")
          /\ LET r == _read(file) IN
                /\ file' = r.file
                /\ Handling(u, m, "stats_command", "done", NoArg,
                            IF r.exc = NoExc
                            THEN <<get_stats_result(r.data).value>>
                            ELSE <<ErrorReply>>)
    /\ UNCHANGED conv

export_command(u) ==
    /\ \E m \in Messages :
          /\ Dispatch(u, m, "export_command")
          /\ IF ~is_admin(u, AdminChatId)
             THEN /\ Handling(u, m, "export_command", "done", NoArg, <<DeniedReply>>)
                  /\ UNCHANGED file
             ELSE LET r == _read(file) IN
                     /\ file' = r.file
                     /\ Handling(u, m, "export_command", "done", NoArg,
                                 IF r.exc = NoExc
                                 THEN <<export_reply(export_csv_result(r.data))>>
                                 ELSE <<export_reply([exc |-> r.exc, value |-> NoValue])>>)
    /\ UNCHANGED conv

clear_command(u) ==
    /\ \E m \in Messages :
          /\ Dispatch(u, m, "clear_command")
          /\ IF ~is_admin(u, AdminChatId)
             THEN /\ Handling(u, m, "clear_command", "done", NoArg, <<DeniedReply>>)
                  /\ UNCHANGED file
             ELSE /\ file' = _write(file, clear_document, "none").file
                  /\ Handling(u, m, "clear_command", "done", NoArg, <<ClearedReply>>)
    /\ UNCHANGED conv

\* /employees: answered from the directory, the store is not involved
employees_command(u) ==
    /\ \E m \in Messages :
          /\ Dispatch(u, m, "employees_command")
          /\ Handling(u, m, "employees_command", "done", NoArg, <<"summary">>)
    /\ UNCHANGED <<file, conv>>

\* The bot answering its users: one update after another
NextChat ==
    \/ \E u \in UserIds :
          \/ Unhandled(u)
          \/ start_command(u)
          \/ help_command(u)
          \/ handle_feedback_command(u)
          \/ handle_feedback_response(u)
          \/ cancel_feedback(u)
          \/ stats_command(u)
          \/ export_command(u)
          \/ clear_command(u)
          \/ employees_command(u)
    \/ SaveFeedback
    \/ NotifyAdmin
    \/ ThankUser

SpecChat == InitFresh /\ [][NextChat]_vars

(* ------------------------ the directory calls -------------------------- *)
\* The CSV file is edited or removed outside the bot
EditSource ==
    /\ source' \in Sources \ {source}
    /\ dcall' = NoDirCall
    /\ UNCHANGED <<_employees, dcalls, dirTasks>>
    /\ UNCHANGED <<file, chatVars>>
    /\ StoreIdle

DirCall(o, q, r, value) ==
    /\ dcalls' = dcalls + 1
    /\ _employees' = r.employees
    /\ dcall' = [op |-> o, query |-> q, exc |-> r.exc, value |-> value,
                 employees0 |-> _employees]
    /\ UNCHANGED <<source, file, chatVars, dirTasks>>
    /\ StoreIdle

CallReload ==
    /\ dcalls < MaxDirCalls
    /\ DirCall("reload", << >>, reload(_employees, source), None)

\* a query: ensure_loaded, then the answer from self._employees
Query(o, q) ==
    LET r == ensure_loaded(_employees, source) IN
    DirCall(o, q, r, IF r.exc = NoExc THEN query_result(o, r.employees, q) ELSE None)

CallSummarize ==
    /\ dcalls < MaxDirCalls
    /\ Query("summarize", << >>)

CallSearch ==
    /\ dcalls < MaxDirCalls
    /\ \E q \in Queries : Query("search", q)

CallByDepartment ==
    /\ dcalls < MaxDirCalls
    /\ \E q \in Queries : Query("by_department", q)

CallFindEmail ==
    /\ dcalls < MaxDirCalls
    /\ \E q \in Queries : Query("find_email", q)

NextDir ==
    \/ EditSource
    \/ CallReload
    \/ CallSummarize
    \/ CallSearch
    \/ CallByDepartment
    \/ CallFindEmail

\* The directory used by one caller at a time, over a file that changes
SpecDir == InitDir /\ [][NextDir]_vars

(* ---------------- the directory calls, step by step ------------------- *)
DirStart(t, o, q) ==
    /\ dpc[t] = "idle"
    /\ dop' = [dop EXCEPT ![t] = [op |-> o, query |-> q]]
    /\ dpc' = [dpc EXCEPT ![t] = "reload_wait"]
    /\ UNCHANGED <<dlock, dread, dret, installed>>
    /\ UNCHANGED <<source, _employees, dcall, dcalls>>

\* the rest of the program while a directory coroutine takes a step
DirFrame == UNCHANGED <<file, chatVars, dcall, dcalls>> /\ StoreIdle

\* directory.reload() is called
StartReload(t) ==
    /\ DirStart(t, "reload", << >>)
    /\ DirFrame

\* a query method is called; each begins with ensure_loaded, a reload
StartQuery(t) ==
    /\ \E o \in DirOps :
          \E q \in (IF o = "summarize" THEN { << >> } ELSE TaskQueries) :
              DirStart(t, o, q)
    /\ DirFrame

\* reload: `async with self._lock` is entered, and _read_csv is handed to
\* a thread
ReloadAcquire(t) ==
    /\ dpc[t] = "reload_wait"
    /\ can_acquire(dlock)
    /\ dlock' = t
    /\ dpc' = [dpc EXCEPT ![t] = "reload_read"]
    /\ UNCHANGED <<dop, dread, dret, installed, source, _employees>>
    /\ DirFrame

\* the thread runs _read_csv over the file as it is now
ReloadRead(t) ==
    /\ dpc[t] = "reload_read"
    /\ dread' = [dread EXCEPT ![t] = _read_csv(source)]
    /\ dpc' = [dpc EXCEPT ![t] = "reload_install"]
    /\ UNCHANGED <<dlock, dop, dret, installed, source, _employees>>
    /\ DirFrame

\* reload resumes with what the thread returned or raised, assigns
\* self._employees or not, and leaves the locked section
ReloadInstall(t) ==
    /\ dpc[t] = "reload_install"
    /\ LET r == reload_install(_employees, dread[t]) IN
          /\ _employees' = r.employees
          /\ installed' = installed \cup {r.employees}
          /\ dlock' = lock_after(t, r.exc)
          /\ IF r.exc # NoExc
             THEN /\ dpc' = [dpc EXCEPT ![t] = "done"]
                  /\ dret' = [dret EXCEPT ![t] = [exc |-> r.exc, value |-> NoValue]]
             ELSE IF dop[t].op = "reload"
             THEN /\ dpc' = [dpc EXCEPT ![t] = "done"]
                  /\ dret' = [dret EXCEPT ![t] = NoRet]
             ELSE /\ dpc' = [dpc EXCEPT ![t] = "query_wait"]
                  /\ UNCHANGED dret
    /\ UNCHANGED <<dop, dread, source>>
    /\ DirFrame

\* a query: `async with self._lock` is entered
QueryAcquire(t) ==
    /\ dpc[t] = "query_wait"
    /\ can_acquire(dlock)
    /\ dlock' = t
    /\ dpc' = [dpc EXCEPT ![t] = "query_crit"]
    /\ UNCHANGED <<dop, dread, dret, installed, source, _employees>>
    /\ DirFrame

\* a query: the answer from self._employees, and the lock released
QueryBody(t) ==
    /\ dpc[t] = "query_crit"
    /\ dret' = [dret EXCEPT ![t] =
                  [exc |-> NoExc,
                   value |-> query_result(dop[t].op, _employees, dop[t].query)]]
    /\ dlock' = lock_after(t, NoExc)
    /\ dpc' = [dpc EXCEPT ![t] = "done"]
    /\ UNCHANGED <<dop, dread, installed, source, _employees>>
    /\ DirFrame

\* what a directory coroutine does once it is called
DirProgress(t) ==
    \/ ReloadAcquire(t)
    \/ ReloadRead(t)
    \/ ReloadInstall(t)
    \/ QueryAcquire(t)
    \/ QueryBody(t)

DirStep(t) ==
    \/ StartReload(t)
    \/ StartQuery(t)
    \/ DirProgress(t)

\* The CSV file is replaced while directory calls are running
ReplaceSource ==
    /\ \E i \in 1..(Len(SourceVersions) - 1) :
          /\ source = SourceVersions[i]
          /\ source' = SourceVersions[i + 1]
    /\ UNCHANGED <<_employees, dcall, dcalls, dirTasks>>
    /\ UNCHANGED <<file, chatVars>>
    /\ StoreIdle

InitDirTasks ==
    /\ file = _ensure_file(MissingFile)
    /\ IdleTasks
    /\ NoChat
    /\ source = SourceVersions[1]
    /\ _employees = << >>
    /\ dcall = NoDirCall
    /\ dcalls = 0
    /\ IdleDirTasks

\* Handlers calling the directory concurrently, one call each, over a file
\* that changes
NextDirTasks ==
    \/ ReplaceSource
    \/ \E t \in Tasks : DirStep(t)

SpecDirTasks == InitDirTasks /\ [][NextDirTasks]_vars

(* ------------------- store and directory together --------------------- *)
\* Each task is one handler coroutine: it calls the store or the directory
\* ("off" marks the resource that the task does not use)
Roles == [Tasks -> {"store", "directory"}]

\* the feedback file does not parse, or was removed after the store was made
InitLive ==
    /\ file \in {_ensure_file(CorruptFile), MissingFile}
    /\ source \in TaskSources
    /\ \E role \in Roles :
          /\ pc = [t \in Tasks |-> IF role[t] = "store" THEN "idle" ELSE "off"]
          /\ dpc = [t \in Tasks |-> IF role[t] = "directory" THEN "idle" ELSE "off"]
    /\ lock = 0
    /\ op = [t \in Tasks |-> "none"]
    /\ arg = [t \in Tasks |-> NoArg]
    /\ data = [t \in Tasks |-> NoDoc]
    /\ ret = [t \in Tasks |-> NoRet]
    /\ reply = [t \in Tasks |-> NoReply]
    /\ before = [t \in Tasks |-> MissingFile]
    /\ last = NoCall
    /\ calls = 0
    /\ NoChat
    /\ _employees = << >>
    /\ dcall = NoDirCall
    /\ dcalls = 0
    /\ dlock = 0
    /\ dop = [t \in Tasks |-> NoDirOp]
    /\ dread = [t \in Tasks |-> NoRead]
    /\ dret = [t \in Tasks |-> NoRet]
    /\ installed = { << >> }

\* what a store coroutine does once it is called
StoreProgress(t) ==
    \/ ReadAcquire(t)
    \/ ReadBody(t)
    \/ AddFeedbackModify(t)
    \/ GetStatsReturn(t)
    \/ ExportCsvReturn(t)
    \/ WriteAcquire(t)
    \/ WriteBody(t)
    \/ WriteBodyFails(t)

NextLive ==
    \E t \in Tasks :
        \/ Step(t)
        \/ WriteBodyFails(t)
        \/ DirStep(t)

\* The event loop runs every coroutine that can go on, and file operations
\* and the reading thread come to an end (each such step moves pc or dpc)
Fairness ==
    \A t \in Tasks : WF_pc(StoreProgress(t)) /\ WF_dpc(DirProgress(t))

SpecLive == InitLive /\ [][NextLive]_vars /\ Fairness

(* =============================== claims ================================ *)
Total(doc)    == doc["stats"]["total_messages"]
Counts(doc)   == doc["stats"]["user_message_counts"]
Feedback(doc) == doc["feedback"]

\* the call of task t went past the administrator check, if it has one
Admitted(t) == op[t] = "export_command" => is_admin(arg[t].user_id, AdminChatId)

Reads(o) == o \in {"add_feedback", "get_stats", "export_csv", "export_command"}

\* C1: starting from the freshly created document, after any completed
\* add_feedback and clear calls the stored document has total_messages equal
\* to the sum of user_message_counts and to the number of feedback entries.
C1_TotalsAgree ==
    /\ file.kind = "json"
    /\ WellFormed(file.doc)
    /\ Total(file.doc) = SumCounts(Counts(file.doc))
    /\ Total(file.doc) = Len(Feedback(file.doc))

\* an entry has been added after a clear that removed an earlier one
C1_Witness ==
    \E t \in Tasks :
        /\ pc[t] = "done" /\ op[t] = "add_feedback"
        /\ last.op = "clear" /\ Len(Feedback(last.before.doc)) = 1
        /\ Len(Feedback(file.doc)) = 1

\* Every task has run one call of `ops` to its end, and all of them started
\* on the same document, before any of them wrote
Batch(ops) ==
    \A t \in Tasks :
        /\ pc[t] = "done" /\ op[t] \in ops /\ ret[t].exc = NoExc
        /\ before[t] = before[1]

SerialCall(doc, o, a) ==
    IF o = "add_feedback" THEN add_feedback_modify(doc, a) ELSE clear_document

RECURSIVE SerialRun(_, _)
SerialRun(doc, order) ==
    IF order = << >> THEN doc
    ELSE SerialRun(SerialCall(doc, op[order[1]], arg[order[1]]), Tail(order))

Orders == {o \in [1..NTasks -> Tasks] : \A i, j \in 1..NTasks : i # j => o[i] # o[j]}

C4_AddAppendsOne ==
    \A t \in Tasks :
        ( /\ pc[t] = "done" /\ op[t] = "add_feedback" /\ ret[t].exc = NoExc
          /\ before[t].kind = "json" /\ WellFormed(before[t].doc) )
        => LET D == before[t].doc
               E == arg[t]
               k == str(E.user_id)
           IN  /\ file.kind = "json"
               /\ WellFormed(file.doc)
               /\ Feedback(file.doc) = Feedback(D) \o
                      << [user_id |-> E.user_id, username |-> E.username,
                          full_name |-> E.full_name, text |-> E.text,
                          timestamp |-> E.timestamp] >>
               /\ Total(file.doc) = Total(D) + 1
               /\ CountGet(Counts(file.doc), k, 0) = CountGet(Counts(D), k, 0) + 1
               /\ CountKeys(Counts(file.doc)) = CountKeys(Counts(D)) \cup {k}
               /\ \A j \in CountKeys(Counts(D)) \ {k} :
                      CountGet(Counts(file.doc), j, 0) = CountGet(Counts(D), j, 0)

\* an entry of user 2 has been added to a document holding entries of user 1
C4_Witness ==
    \E t \in Tasks :
        /\ pc[t] = "done" /\ op[t] = "add_feedback" /\ ret[t].exc = NoExc
        /\ before[t].kind = "json" /\ WellFormed(before[t].doc)
        /\ Len(Feedback(before[t].doc)) >= 1
        /\ arg[t].user_id = 2
        /\ Feedback(before[t].doc)[1].user_id = 1

ClearReturned == last.op = "clear" /\ last.ret.exc = NoExc

\* C5: right after a clear, get_stats returns (0, []), export_csv raises the
\* empty-data error, and a second clear leaves the document the first left.
C5_ClearIsZero ==
    \A t \in Tasks :
        (ClearReturned /\ pc[t] = "done")
        => /\ last.after = JsonFile(EmptyDoc)
           /\ op[t] = "get_stats"
                => ret[t] = [exc |-> NoExc, value |-> <<0, << >> >>]
           /\ op[t] = "export_csv"
                => ret[t] = [exc |-> Exc("ValueError", NoFeedbackMsg), value |-> NoValue]
           /\ (op[t] = "clear" /\ ret[t].exc = NoExc) => file = last.after

\* get_stats has returned right after a clear of a file that held an entry
C5_Witness ==
    \E t \in Tasks :
        /\ ClearReturned /\ pc[t] = "done" /\ op[t] = "get_stats"
        /\ last.before.kind = "json"
        /\ Get(last.before.doc, "feedback", << >>) # << >>

ZeroStats == [exc |-> NoExc, value |-> <<0, << >> >>]

OnlyEntry(e) ==
    [feedback |-> <<e>>,
     stats |-> [total_messages |-> 1,
                user_message_counts |-> <<(<<str(e.user_id), 1>>)>>]]

\* C6: over a file whose text json.loads rejects, a reading call raises no
\* parse error, the file is rewritten as the empty document, get_stats
\* returns zero stats, and an add_feedback that follows (or is that call)
\* leaves a document holding exactly its entry.
C6_CorruptionHeals ==
    \A t \in Tasks :
        /\ ( /\ pc[t] \in {"after_read", "write_wait"} /\ Reads(op[t])
              /\ before[t].kind = "corrupt" )
              => file = JsonFile(EmptyDoc)
        /\ (pc[t] = "done" /\ Reads(op[t]) /\ Admitted(t) /\ before[t].kind = "corrupt")
              => /\ ret[t].exc.type \notin {"JSONDecodeError", "UnicodeDecodeError"}
                 /\ op[t] = "get_stats" => ret[t] = ZeroStats /\ file = JsonFile(EmptyDoc)
                 /\ op[t] \in {"export_csv", "export_command"}
                      => ret[t].exc = Exc("ValueError", NoFeedbackMsg)
                         /\ file = JsonFile(EmptyDoc)
                 /\ (op[t] = "add_feedback" /\ ret[t].exc = NoExc)
                      => file = JsonFile(OnlyEntry(arg[t]))
        /\ ( /\ pc[t] = "done" /\ op[t] = "add_feedback" /\ ret[t].exc = NoExc
              /\ last.op = "get_stats" /\ last.before.kind = "corrupt" )
              => last.ret = ZeroStats /\ file = JsonFile(OnlyEntry(arg[t]))

\* add_feedback has returned after a get_stats that met the corrupt file
C6_Witness ==
    \E t \in Tasks :
        /\ pc[t] = "done" /\ op[t] = "add_feedback" /\ ret[t].exc = NoExc
        /\ last.op = "get_stats" /\ last.before.kind = "corrupt"

\* C7: over a file that cannot be read (it was removed after the store was
\* constructed), a reading call falls back to the empty document and
\* raises no read failure to its caller.
C7_ReadFailureFallsBack ==
    \A t \in Tasks :
        ( /\ pc[t] = "done" /\ Reads(op[t]) /\ Admitted(t)
          /\ before[t].kind = "missing" )
        => /\ ret[t].exc.type # "FileNotFoundError"
           /\ file.kind = "json"

C9_FailedWriteChangesNothing ==
    \A t \in Tasks :
        ( /\ pc[t] = "done" /\ op[t] = "add_feedback"
          /\ ret[t].exc.type = "OSError" /\ before[t].kind = "json" )
        => file = before[t]

\* C10: export_csv raises the empty-data error exactly when there are no
\* entries; export_command answers "nothing to export" exactly then, and
\* answers any other failure with the generic reply.
C10_EmptyIsDistinct ==
    \A t \in Tasks :
        ( pc[t] = "done" /\ op[t] \in {"export_csv", "export_command"} /\ Admitted(t) )
        => LET empty == /\ file.kind = "json"
                        /\ Get(file.doc, "feedback", << >>) = << >>
           IN  /\ (ret[t].exc = Exc("ValueError", NoFeedbackMsg)) <=> empty
               /\ op[t] = "export_command"
                    => /\ (reply[t] = NoFeedbackMsg) <=> empty
                       /\ (ret[t].exc # NoExc /\ ~empty) => reply[t] = GenericReply
                       /\ ret[t].exc = NoExc => reply[t] = DocumentReply

(* ------------------------ claims on the handlers ----------------------- *)
\* the update in `upd` has been handled to its end
Handled == upd.stage = "done"

\* the sender of the update and the conversation state they were in
Sender == upd.user

\* the handling of the update has stored exactly the entry e
Recorded(e) ==
    /\ file.kind = "json"
    /\ Feedback(file.doc) = Append(Feedback(upd.file0.doc), as_dict(e))
    /\ Total(file.doc) = Total(upd.file0.doc) + 1

\* C11: export or clear sent by someone who is not the administrator gets the
\* permission-denied reply and nothing else: the feedback document and every
\* user's conversation state are as before, and nobody is notified; a clear
\* that ran was sent by the administrator.
C11_NonAdminChangesNothing ==
    ( Handled /\ upd.msg \in AdminMessages )
    => /\ ~is_admin(Sender, AdminChatId)
          => /\ upd.replies = <<DeniedReply>>
             /\ file = upd.file0
             /\ conv = upd.conv0
             /\ upd.notify = "none"
       /\ (upd.msg.cmd = "clear" /\ (file # upd.file0 \/ upd.replies = <<ClearedReply>>))
          => Sender = AdminChatId

\* someone else than the administrator sent /clear while an entry was stored
\* and a conversation was open
C11_Witness ==
    /\ Handled /\ upd.msg = Command("clear", << >>)
    /\ ~is_admin(Sender, AdminChatId)
    /\ Len(Feedback(file.doc)) = 1
    /\ conv[Sender] = AWAITING_FEEDBACK_TEXT

\* C12: /feedback without text from a user with no conversation open stores
\* nothing, asks for the text and opens the conversation; the text message
\* that follows stores exactly one entry with that text (blanks at its ends
\* removed) and closes the conversation; /feedback with a text stores one
\* entry at once, does not ask, and leaves no conversation open.
C12_FeedbackCycle ==
    Handled =>
    /\ ( upd.msg = Command("feedback", << >>) /\ upd.conv0[Sender] = END )
       => /\ file = upd.file0
          /\ upd.replies = <<PromptReply>>
          /\ upd.notify = "none"
          /\ conv[Sender] = AWAITING_FEEDBACK_TEXT
    /\ ( upd.msg.kind = "text" /\ upd.conv0[Sender] = AWAITING_FEEDBACK_TEXT
         /\ \E i \in 1..Len(upd.msg.text) : upd.msg.text[i] # " " )
       => /\ \E now \in Times : Recorded(FeedbackEntry(Sender, Hi, now))
          /\ upd.replies = <<SavedReply>>
          /\ conv[Sender] = END
    /\ ( upd.msg.cmd = "feedback" /\ upd.msg.args # << >> /\ upd.conv0[Sender] = END )
       => /\ \E now \in Times :
                Recorded(FeedbackEntry(Sender,
                    IF upd.msg.args = <<Hi>> THEN Hi ELSE Ok \o <<" ">> \o Hi, now))
          /\ upd.replies = <<ThanksReply>>
          /\ conv[Sender] = END

\* the text asked for came with blanks around it and was stored
C12_Witness ==
    /\ Handled /\ upd.msg = TextMessage(<<" ">> \o Hi \o <<" ">>)
    /\ upd.callback = "handle_feedback_response"
    /\ Len(Feedback(file.doc)) = 2

\* C13: /cancel from a user whose conversation is open closes it; nothing is
\* stored, the document is as before and the administrator is not notified.
C13_CancelDiscards ==
    ( Handled /\ upd.msg = Command("cancel", << >>)
      /\ upd.conv0[Sender] = AWAITING_FEEDBACK_TEXT )
    => /\ conv[Sender] = END
       /\ file = upd.file0
       /\ upd.notify = "none"
       /\ upd.replies = <<CancelReply>>

\* a conversation was cancelled while the document held an entry
C13_Witness ==
    /\ Handled /\ upd.callback = "cancel_feedback"
    /\ Len(Feedback(file.doc)) = 1

\* C14: a text of blanks only, sent while the text is awaited, stores
\* nothing, is answered by the request to try again and leaves the
\* conversation open; no stored entry has an empty text.
C14_NoEmptyFeedback ==
    /\ ( Handled /\ upd.msg.kind = "text" /\ upd.msg.text # << >>
         /\ (\A i \in 1..Len(upd.msg.text) : upd.msg.text[i] = " ")
         /\ upd.conv0[Sender] = AWAITING_FEEDBACK_TEXT )
       => /\ file = upd.file0
          /\ upd.replies = <<EmptyReply>>
          /\ upd.notify = "none"
          /\ conv[Sender] = AWAITING_FEEDBACK_TEXT
    /\ file.kind = "json"
    /\ \A i \in 1..Len(Feedback(file.doc)) :
          \E k \in 1..Len(Feedback(file.doc)[i]["text"]) :
              Feedback(file.doc)[i]["text"][k] # " "

\* blanks were sent as the text, after an entry had been stored
C14_Witness ==
    /\ Handled /\ upd.msg = TextMessage(<<" ", " ">>)
    /\ upd.callback = "handle_feedback_response"
    /\ Len(Feedback(file.doc)) = 1

\* C15: the conversation state is kept per user: an update of one user
\* leaves the state of every other user as it was, and a text message is
\* stored only if its own sender's conversation was open.
C15_PerUser ==
    upd.stage # "none" =>
    /\ \A b \in UserIds \ {Sender} : conv[b] = upd.conv0[b]
    /\ ( upd.msg.kind = "text" /\ upd.conv0[Sender] # AWAITING_FEEDBACK_TEXT )
       => /\ file = upd.file0
          /\ upd.callback = None
          /\ upd.entry = NoArg

\* a text of a user with no conversation open, sent while another user's
\* text was awaited
C15_Witness ==
    /\ Handled /\ upd.msg = TextMessage(Hi)
    /\ upd.conv0[Sender] = END
    /\ \E b \in UserIds \ {Sender} : conv[b] = AWAITING_FEEDBACK_TEXT

\* C16: the administrator is notified only after the entry is in the
\* document; when the notification cannot be sent the entry stays, nothing
\* is raised, the user is thanked and the conversation is closed.
C16_NotifyAfterWrite ==
    /\ upd.stage \in {"notifying", "replying"} => Recorded(upd.entry)
    /\ upd.notify # "none" => Recorded(upd.entry)
    /\ ( Handled /\ upd.notify = "failed" )
       => /\ Recorded(upd.entry)
          /\ upd.replies \in {<<ThanksReply>>, <<SavedReply>>}
          /\ conv[Sender] = END

\* the notification for a text that was asked for could not be sent
C16_Witness ==
    /\ Handled /\ upd.notify = "failed"
    /\ upd.callback = "handle_feedback_response"

\* C22: while a user's text is awaited, every command of that user other
\* than /cancel, a second /feedback with or without a text included, leaves
\* the conversation open and stores no entry; the text of a command is
\* never taken for the awaited text.
C22_CommandsKeepAwaiting ==
    ( upd.stage # "none" /\ upd.msg.kind = "command" /\ upd.msg.cmd # "cancel"
      /\ upd.conv0[Sender] = AWAITING_FEEDBACK_TEXT )
    => /\ conv[Sender] = AWAITING_FEEDBACK_TEXT
       /\ upd.callback # "handle_feedback_response"
       /\ upd.entry = NoArg
       /\ upd.notify = "none"
       /\ file.kind = "json"
       /\ \/ file = upd.file0
          \/ upd.msg.cmd = "clear" /\ Feedback(file.doc) = << >>

\* a second /feedback with a text reached no handler while an entry was stored
C22_Witness ==
    /\ Handled /\ upd.msg = Command("feedback", <<Hi>>)
    /\ upd.conv0[Sender] = AWAITING_FEEDBACK_TEXT
    /\ upd.callback = None
    /\ Len(Feedback(file.doc)) = 1

(* ----------------------- claims on the directory ----------------------- *)
\* a directory call has returned or raised, and the file is as it read it
Called == dcall.op # "none"

HasColumns(src) ==
    \A c \in RequiredColumns : \E i \in 1..Len(src.fieldnames) : src.fieldnames[i] = c

\* a row with a name and an email that are not blank
Complete(row) ==
    /\ "name" \in DOMAIN row /\ \E i \in 1..Len(row["name"]) : row["name"][i] # " "
    /\ "email" \in DOMAIN row /\ \E i \in 1..Len(row["email"]) : row["email"][i] # " "

\* the employee that a complete row of the model describes
Described(row) ==
    IF row = IvanRow
    THEN Employee(<<"I", "v">>, <<"I", "T">>, <<"Q", "A">>, <<"i", "@">>)
    ELSE Employee(<<"A", "n">>, << >>, <<"I", "T">>, <<"a", "@">>)

Listed(src) ==
    LET rows == SelectSeq(src.rows, Complete)
    IN  [i \in 1..Len(rows) |-> Described(rows[i])]

\* C17: a reload that finds a required column missing raises the schema
\* error and leaves the employees in memory as they were; one that finds no
\* file raises nothing and leaves them empty; the employees in memory are
\* never a part of what a reload read.
C17_ReloadFailureKeeps ==
    Called =>
    /\ ( source.kind = "csv" /\ ~HasColumns(source) )
       => /\ dcall.exc = SchemaError
          /\ _employees = dcall.employees0
    /\ source.kind = "missing"
       => /\ dcall.exc = NoExc
          /\ _employees = << >>
    /\ _employees \in {dcall.employees0, << >>, Listed(source)}

\* a reload found a column missing after employees had been loaded
C17_Witness ==
    /\ dcall.op = "reload" /\ dcall.exc = SchemaError
    /\ Len(dcall.employees0) = 2

\* C18: after a reload that succeeded the employees in memory are exactly
\* the rows of the file that have a name and an email, in the order of the
\* file: nothing of an earlier load is left, and incomplete rows are left out.
C18_ReloadReplaces ==
    ( Called /\ dcall.exc = NoExc /\ source.kind = "csv" )
    => _employees = Listed(source)

\* a reload replaced an earlier load and left an incomplete row out
C18_Witness ==
    /\ dcall.op = "reload" /\ dcall.exc = NoExc
    /\ source = CsvSource(FullHeader, <<BlankRow, AnnaRow>>)
    /\ dcall.employees0 = <<Described(IvanRow)>>
    /\ _employees = <<Described(AnnaRow)>>

\* C19: a query of a directory that has been loaded answers from the
\* employees in memory and does not read the file again.
C19_LoadedOnce ==
    ( Called /\ dcall.op \in DirOps /\ dcall.employees0 # << >> )
    => /\ dcall.exc = NoExc
       /\ _employees = dcall.employees0

\* task t is inside the locked section of the directory
InSection(t) == dpc[t] \in {"reload_read", "reload_install", "query_crit"}

\* a sequence that is all of what one reload read, or the first, empty one
Whole(e) ==
    \/ e = << >>
    \/ \E src \in TaskSources : HasColumns(src) /\ e = Listed(src)

\* C21: with reloads and queries running concurrently, at most one task is
\* inside the locked section of the directory, and the answer of every
\* query is computed from one whole sequence that a finished reload
\* assigned, or from the first, empty one.
C21_DirectoryExclusive ==
    /\ \A t, u \in Tasks : (InSection(t) /\ InSection(u)) => t = u
    /\ \A t \in Tasks : InSection(t) => dlock = t
    /\ _employees \in installed
    /\ \A e \in installed : Whole(e)
    /\ \A t \in Tasks :
          ( dpc[t] = "done" /\ dop[t].op \in DirOps /\ dret[t].exc = NoExc )
          => \E e \in installed :
                dret[t].value = query_result(dop[t].op, e, dop[t].query)

\* a query waits for the lock while a reload is about to replace the
\* employees of an earlier load by others
C21_Witness ==
    \E t, u \in Tasks :
        /\ dpc[t] = "query_wait" /\ dpc[u] = "reload_install" /\ dlock = u
        /\ _employees # << >>
        /\ dread[u].exc = NoExc
        /\ dread[u].employees # << >> /\ dread[u].employees # _employees

(* ----------------------- claims on the store lock ---------------------- *)
\* C20: add_feedback holds the lock of the store from before it reads the
\* document until it has written it back.
C20_LockHeldThroughout ==
    \A t \in Tasks :
        ( op[t] = "add_feedback"
          /\ pc[t] \in {"read_crit", "after_read", "write_wait", "write_crit"} )
        => lock = t

\* task t runs a store call, or a directory call, that has not ended
StoreRunning(t) == pc[t] \notin {"idle", "off", "done"}
DirRunning(t)   == dpc[t] \notin {"idle", "off", "done"}

\* a lock is held only by a task that is inside a section under it
HeldInside ==
    \A t \in Tasks :
        /\ lock = t => pc[t] \in {"read_crit", "write_crit"}
        /\ dlock = t => InSection(t)

\* C23: no lock stays held: every store and directory operation leaves its
\* locked section with the lock released, also when a reload finds no file
\* or a column missing and when the document does not parse, and every
\* operation that was started comes to its end.
C23_LocksReleased ==
    /\ []HeldInside
    /\ (lock # 0) ~> (lock = 0)
    /\ (dlock # 0) ~> (dlock = 0)
    /\ \A t \in Tasks : StoreRunning(t) ~> (pc[t] = "done")
    /\ \A t \in Tasks : DirRunning(t) ~> (dpc[t] = "done")

\* a directory call has ended with the schema error and a store call has
\* ended after a parse error, and both locks are free
C23_Witness ==
    \E t, u \in Tasks :
        /\ dpc[t] = "done" /\ dret[t].exc = SchemaError
        /\ pc[u] = "done" /\ before[u] = CorruptFile /\ ret[u].exc = NoExc
        /\ lock = 0 /\ dlock = 0

====
